---- MODULE Spec2Model ----
(***************************************************************************)
(* Model of xls_deid.py: the identifying-term registry, the first-pass     *)
(* (name based) and second-pass (value based) column matchers, the         *)
(* exporter process_file, and the Gradio event wiring around them.         *)
(*                                                                         *)
(* A text (Python str) is a sequence of one-character strings, so that     *)
(* lower(), strip(), the substring test and the "deidentified_" prefix are *)
(* computed and not assumed.                                               *)
(***************************************************************************)
EXTENDS Integers, Sequences, FiniteSets, TLC

VARIABLES
    identifying_strings,  \* the module-level list (line 7)
    fs,                   \* the disk: path -> stored content
    file_input,           \* gr.File component: None or an uploaded file
    identified_columns,   \* gr.CheckboxGroup (first pass): [choices, value]
    additional_columns,   \* gr.CheckboxGroup (second pass): [choices, value]
    result,               \* gr.Textbox "Status"
    pending,              \* handlers of the current event that have not run yet
    last,                 \* history: the last handler run, its inputs and its return
    call,                 \* arguments of a direct call of a core function
    ret                   \* what that call returned

vars == <<identifying_strings, fs, file_input, identified_columns,
          additional_columns, result, pending, last, call, ret>>

None == "None"

\* file_input holding no file (Python None); the path of a file is never empty
NoFile == <<>>

----------------------------------------------------------------------------
(* Bounds of the exploration *)

MaxCols == 2       \* columns of a table given to identify_columns
MaxTerms == 2      \* terms in the registry given to identify_columns
MaxDataCols == 3   \* columns of a table given to second_pass_identification
MaxRows == 2       \* rows of such a table

----------------------------------------------------------------------------
(* Python str operations *)

Range(s) == {s[i] : i \in 1..Len(s)}

NoDup(s) == \A i, j \in 1..Len(s) : i # j => s[i] # s[j]

UpperChars ==
    <<"A", "B", "C", "D", "E", "F", "G", "H", "I", "J", "K", "L", "M">> \o
    <<"N", "O", "P", "Q", "R", "S", "T", "U", "V", "W", "X", "Y", "Z">>
LowerChars ==
    <<"a", "b", "c", "d", "e", "f", "g", "h", "i", "j", "k", "l", "m">> \o
    <<"n", "o", "p", "q", "r", "s", "t", "u", "v", "w", "x", "y", "z">>

\* str.lower() on one character
LowerChar(c) ==
    IF \E i \in 1..Len(UpperChars) : UpperChars[i] = c
    THEN LowerChars[CHOOSE i \in 1..Len(UpperChars) : UpperChars[i] = c]
    ELSE c

\* str.lower()
Lower(s) == [i \in 1..Len(s) |-> LowerChar(s[i])]

Whitespace == {" ", "\t"}

RECURSIVE LStrip(_)
LStrip(s) == IF s # <<>> /\ Head(s) \in Whitespace THEN LStrip(Tail(s)) ELSE s

RECURSIVE RStrip(_)
RStrip(s) ==
    IF s # <<>> /\ s[Len(s)] \in Whitespace
    THEN RStrip(SubSeq(s, 1, Len(s) - 1))
    ELSE s

\* str.strip()
Strip(s) == LStrip(RStrip(s))

\* Python's  sub in s  on two strs
Contains(s, sub) ==
    \E i \in 1..(Len(s) - Len(sub) + 1) : SubSeq(s, i, i + Len(sub) - 1) = sub

\* Python's  x in list
InList(x, l) == \E i \in 1..Len(l) : l[i] = x

\* list.remove(x): drops the first occurrence
RemoveFirst(l, x) ==
    LET i == CHOOSE k \in 1..Len(l) : l[k] = x /\ \A j \in 1..(k - 1) : l[j] # x
    IN  SubSeq(l, 1, i - 1) \o SubSeq(l, i + 1, Len(l))

----------------------------------------------------------------------------
(* The identifying-term registry *)

T_name == <<"n", "a", "m", "e">>
T_dob == <<"d", "o", "b">>

\* line 7: the list the process starts with
InitialStrings ==
    << T_name, T_dob, <<"b", "i", "r", "t", "h">>, <<"d", "a", "t", "e">>,
       <<"m", "r", "n">>, <<"f", "i", "r", "s", "t">>, <<"l", "a", "s", "t">>,
       <<"a", "d", "d", "r", "e", "s", "s">>, <<"s", "s", "n">>,
       <<"m", "i", "d", "d", "l", "e">> >>

\* line 265: the list reset() assigns
ResetStrings == << T_name, T_dob >>

\* lines 19-23: the list after update_identifying_list_add(new_string)
list_add_unchecked(strings, new_string) ==
    IF new_string # <<>> THEN Append(strings, Lower(new_string)) ELSE strings
list_add(strings, new_string) ==
    IF new_string # <<>>
    THEN IF ~InList(Lower(new_string), strings)
         THEN Append(strings, Lower(new_string))
         ELSE strings
    ELSE strings

\* lines 36-40: the list after update_identifying_list_remove(new_string)
list_remove(strings, new_string) ==
    IF new_string # <<>>
    THEN IF InList(Lower(new_string), strings)
         THEN RemoveFirst(strings, Lower(new_string))
         ELSE strings
    ELSE strings

----------------------------------------------------------------------------
(* First pass: identify_columns.  A table (DataFrame) is                   *)
(* [columns |-> sequence of names, rows |-> sequence of rows], a row being *)
(* a sequence of cells, one per column.                                    *)

\* line 54
normalized_nostrip(col) == Lower(col)
normalized(col) == Strip(Lower(col))

\* lines 56-59: the inner loop over identifying_strings from index k, ending
\* at the first term found
RECURSIVE matches_from(_, _, _)
matches_from(col, strings, k) ==
    IF k > Len(strings) THEN FALSE
    ELSE IF Contains(col, strings[k]) THEN TRUE
    ELSE matches_from(col, strings, k + 1)

\* lines 53-60: the outer loop from column idx
RECURSIVE identify_from(_, _, _)
identify_from(columns, strings, idx) ==
    IF idx > Len(columns) THEN <<>>
    ELSE IF matches_from(normalized(columns[idx]), strings, 1)
         THEN <<columns[idx]>> \o identify_from(columns, strings, idx + 1)
         ELSE identify_from(columns, strings, idx + 1)

identify_columns(df, strings) == identify_from(df.columns, strings, 1)

----------------------------------------------------------------------------
(* Second pass: second_pass_identification.  A cell is                     *)
(* [null |-> pd.isna(cell), repr |-> str(cell)]: a missing value is null   *)
(* and still has a string form ("nan" for NaN, "NaT" for a missing date),  *)
(* which is what Series.astype(str) turns it into.  A column selection is  *)
(* modelled as the set of its names: the code only iterates it to build a  *)
(* set (75-76), tests membership in it (88, 136) and takes set() of it     *)
(* (173).                                                                  *)

X_NaN == <<"n", "a", "n">>
X_NaT == <<"N", "a", "T">>

NaN == [null |-> TRUE, repr |-> X_NaN]
NaT == [null |-> TRUE, repr |-> X_NaT]
Text(s) == [null |-> FALSE, repr |-> s]

ColIndex(df, col) == CHOOSE i \in 1..Len(df.columns) : df.columns[i] = col

\* df[col]: the cells of one column, top to bottom
Column(df, col) == [r \in 1..Len(df.rows) |-> df.rows[r][ColIndex(df, col)]]

\* df[col] raises KeyError for a name that is no column of df (76)
second_pass_raises(df, selected) == \E c \in selected : ~InList(c, df.columns)

\* lines 74-79: the str() of every non-null cell of the selected columns
pii_values(df, selected) ==
    UNION { {Column(df, c)[r].repr : r \in {q \in 1..Len(df.rows) : ~Column(df, c)[q].null}}
            : c \in selected }

\* line 89: df[col].astype(str).isin(pii_values).any()
column_hits_substring(df, col, pii) ==
    \E r \in 1..Len(df.rows) : \E v \in pii : Contains(Column(df, col)[r].repr, v)
column_hits(df, col, pii) ==
    \E r \in 1..Len(df.rows) : Column(df, col)[r].repr \in pii

\* lines 86-91: the loop over df.columns from index idx
RECURSIVE additional_from(_, _, _, _)
additional_from(df, selected, pii, idx) ==
    IF idx > Len(df.columns) THEN <<>>
    ELSE IF df.columns[idx] \notin selected /\ column_hits(df, df.columns[idx], pii)
         THEN <<df.columns[idx]>> \o additional_from(df, selected, pii, idx + 1)
         ELSE additional_from(df, selected, pii, idx + 1)

second_pass_identification(df, selected) ==
    additional_from(df, selected, pii_values(df, selected), 1)

----------------------------------------------------------------------------
(* Direct calls of the two matchers on bounded inputs *)

\* all duplicate-free lists of at most n elements of S
ListsUpTo(S, n) == {l \in UNION {[1..k -> S] : k \in 0..n} : NoDup(l)}

N_Name == <<"N", "a", "m", "e">>
N_DOB == <<" ", "D", "O", "B", " ">>
N_ab == <<"a", " ", "b">>
N_Zip == <<"Z", "i", "p">>
T_sp == <<" ">>
T_a == <<"a">>

NamePool == {N_Name, N_DOB, N_ab, N_Zip}
TermPool == {T_name, T_dob, T_sp, T_a}

Idle == [choices |-> <<>>, value |-> {}]
NoCall == [fn |-> None]
NoRet == [done |-> FALSE]
Returned(v) == [done |-> TRUE, value |-> v]

InitFirstPass ==
    /\ identifying_strings \in ListsUpTo(TermPool, MaxTerms)
    /\ call \in {[fn |-> "identify_columns", df |-> [columns |-> cs, rows |-> <<>>]]
                 : cs \in ListsUpTo(NamePool, MaxCols)}
    /\ ret = NoRet
    /\ fs = <<>> /\ file_input = NoFile /\ result = <<>>
    /\ identified_columns = Idle /\ additional_columns = Idle
    /\ pending = {} /\ last = NoCall

CallIdentifyColumns ==
    /\ call.fn = "identify_columns" /\ ~ret.done
    /\ ret' = Returned(identify_columns(call.df, identifying_strings))
    /\ UNCHANGED <<identifying_strings, fs, file_input, identified_columns,
                   additional_columns, result, pending, last, call>>

SpecFirstPass == InitFirstPass /\ [][CallIdentifyColumns]_vars

\* C1: identify_columns(D) is exactly the columns of D, in D's order and
\* each once, whose lowercased and trimmed name contains a term of the
\* registry as a substring; the order of the terms plays no part.
HasTerm(col, terms) == \E t \in terms : Contains(Strip(Lower(col)), t)
C1_FirstPassExact ==
    (call.fn = "identify_columns" /\ ret.done) =>
        LET cols == call.df.columns
            T == Range(identifying_strings)
        IN  /\ \A i \in 1..Len(ret.value) : InList(ret.value[i], cols) /\ HasTerm(ret.value[i], T)
            /\ \A i \in 1..Len(cols) : HasTerm(cols[i], T) => InList(cols[i], ret.value)
            /\ NoDup(ret.value)
            /\ \A i, j \in 1..Len(ret.value) :
                   i < j => ColIndex(call.df, ret.value[i]) < ColIndex(call.df, ret.value[j])

\* C1 witness: a call that had to lowercase and trim, returned some columns
\* and left some out, on a table whose order differs from the registry's
C1_Witness ==
    /\ call.fn = "identify_columns" /\ ret.done
    /\ call.df.columns = <<N_DOB, N_Name>>
    /\ identifying_strings = <<T_name, T_sp>>
    /\ ret.value = <<N_Name>>

\* Cells a loaded table can hold: a missing number, a missing date, and texts,
\* one of them the text "NaT" (read_csv and read_excel turn the text "nan"
\* into a missing value, and leave the text "NaT" a text)
X_alice == <<"A", "l", "i", "c", "e">>
CellPool == {NaN, NaT, Text(X_NaT), Text(X_alice)}

DataCols == <<N_Name, N_Zip, N_ab>>

InitSecondPass ==
    /\ \E w \in 1..MaxDataCols, h \in 0..MaxRows :
         \E rs \in [1..h -> [1..w -> CellPool]], sel \in SUBSET (1..w) :
            call = [fn |-> "second_pass_identification",
                    df |-> [columns |-> SubSeq(DataCols, 1, w), rows |-> rs],
                    selected |-> {DataCols[i] : i \in sel}]
    /\ identifying_strings = InitialStrings
    /\ ret = NoRet
    /\ fs = <<>> /\ file_input = NoFile /\ result = <<>>
    /\ identified_columns = Idle /\ additional_columns = Idle
    /\ pending = {} /\ last = NoCall

CallSecondPass ==
    /\ call.fn = "second_pass_identification" /\ ~ret.done
    /\ ret' = Returned(second_pass_identification(call.df, call.selected))
    /\ UNCHANGED <<identifying_strings, fs, file_input, identified_columns,
                   additional_columns, result, pending, last, call>>

SpecSecondPass == InitSecondPass /\ [][CallSecondPass]_vars

\* the string forms of the non-null cells of column col
NonNullReprs(df, col) ==
    {Column(df, col)[r].repr : r \in {q \in 1..Len(df.rows) : ~Column(df, col)[q].null}}

\* C2: second_pass_identification(D, S) is empty when S is empty and when
\* every cell of S's columns is null; otherwise a column C outside S is in it
\* iff a non-null cell of C has the string form of a non-null cell of a
\* column of S (a null cell of C never counts); no column of S is in it; it
\* is in D's column order.
C2_SecondPassClaim ==
    (call.fn = "second_pass_identification" /\ ret.done) =>
        LET D == call.df
            S == call.selected
            shared == UNION {NonNullReprs(D, c) : c \in S}
        IN  /\ S = {} => ret.value = <<>>
            /\ shared = {} => ret.value = <<>>
            /\ \A i \in 1..Len(D.columns) :
                   D.columns[i] \notin S =>
                       (InList(D.columns[i], ret.value) <=>
                            NonNullReprs(D, D.columns[i]) \cap shared # {})
            /\ \A i \in 1..Len(ret.value) : ret.value[i] \notin S
            /\ \A i, j \in 1..Len(ret.value) :
                   i < j => ColIndex(D, ret.value[i]) < ColIndex(D, ret.value[j])

----------------------------------------------------------------------------
(* Files.  A path is a text.  The disk maps the path of each existing file *)
(* to [kind, table]: kind "csv" is a file pd.read_csv parses, "xlsx" one   *)
(* pd.read_excel parses, "garbage" one neither parses; table is the        *)
(* DataFrame the parse returns, and the DataFrame handed to to_csv or      *)
(* to_excel when the file was written by process_file.                     *)

Slash == "/"

\* os.path.basename: what follows the last "/"
RECURSIVE basename(_)
basename(p) ==
    IF \E i \in 1..Len(p) : p[i] = Slash
    THEN basename(SubSeq(p, (CHOOSE i \in 1..Len(p) : p[i] = Slash) + 1, Len(p)))
    ELSE p

\* os.path.dirname: what precedes the last "/"
dirname(p) == SubSeq(p, 1, Len(p) - Len(basename(p)) - 1)

\* str.endswith
endswith(s, suffix) ==
    Len(s) >= Len(suffix) /\ SubSeq(s, Len(s) - Len(suffix) + 1, Len(s)) = suffix

Ext_csv == <<".", "c", "s", "v">>
Ext_xlsx == <<".", "x", "l", "s", "x">>
Deidentified == <<"d", "e", "i", "d", "e", "n", "t", "i", "f", "i", "e", "d", "_">>

\* the process's working directory, and the directories a file can be created in
Cwd == <<"/", "w">>
UploadDir == <<"/", "u">>
WritableDirs == {Cwd, UploadDir}

\* the file a name given to open() designates
Resolve(name) == IF name # <<>> /\ Head(name) = Slash THEN name ELSE Cwd \o <<Slash>> \o name

\* lines 165-168 (also 106-109, 130-133, 219-222, 291-294): which reader the
\* name selects, and whether it raises
read_raises(disk, name) ==
    \/ name \notin DOMAIN disk
    \/ disk[name].kind # (IF endswith(name, Ext_csv) THEN "csv" ELSE "xlsx")
read_table(disk, name) == disk[name].table

\* lines 185-188: to_csv / to_excel raise when the file cannot be created;
\* to_excel also when the name has no spreadsheet extension
write_raises(file_name, output_file_name) ==
    \/ dirname(Resolve(output_file_name)) \notin WritableDirs
    \/ ~endswith(file_name, Ext_csv) /\ ~endswith(output_file_name, Ext_xlsx)
written(file_name, df) ==
    [kind |-> IF endswith(file_name, Ext_csv) THEN "csv" ELSE "xlsx", table |-> df]

----------------------------------------------------------------------------
(* The exporter: process_file *)

S_NoFile == "No file uploaded."
S_NoName == "Please specify an output file name."
S_ReadError == "Error reading file"
S_WriteError == "Error writing file"
S_Success == "File processed successfully."

\* lines 158-161
precheck_swapped(file, output_file_name) ==
    IF output_file_name = <<>> THEN S_NoName
    ELSE IF file = NoFile THEN S_NoFile
    ELSE None
precheck(file, output_file_name) ==
    IF file = NoFile THEN S_NoFile
    ELSE IF output_file_name = <<>> THEN S_NoName
    ELSE None

\* line 173
first_pass_only(first, second) == first
all_selected_columns(first, second) == first \cup second

\* line 176: df.drop(columns=..., errors='ignore')
Keep(df, names) == {i \in 1..Len(df.columns) : df.columns[i] \notin names}
RECURSIVE Pick(_, _, _)
Pick(row, keep, i) ==
    IF i > Len(row) THEN <<>>
    ELSE (IF i \in keep THEN <<row[i]>> ELSE <<>>) \o Pick(row, keep, i + 1)
drop(df, names) ==
    [columns |-> Pick(df.columns, Keep(df, names), 1),
     rows |-> [r \in 1..Len(df.rows) |-> Pick(df.rows[r], Keep(df, names), 1)]]

\* lines 179-181
guarded_name(file_name, output_file_name) ==
    IF output_file_name = basename(file_name)
    THEN Deidentified \o output_file_name
    ELSE output_file_name

\* lines 158-192: the status returned, the disk afterwards, and the reads and
\* writes attempted on the way
process_file(disk, file, output_file_name, first, second) ==
    IF precheck(file, output_file_name) # None
    THEN [status |-> precheck(file, output_file_name), disk |-> disk, io |-> <<>>]
    ELSE IF read_raises(disk, file)
    THEN [status |-> S_ReadError, disk |-> disk, io |-> <<"read">>]
    ELSE LET df == read_table(disk, file)
             df_deidentified == drop(df, all_selected_columns(first, second))
             out == guarded_name(file, output_file_name)
         IN  IF write_raises(file, out)
             THEN [status |-> S_WriteError, disk |-> disk, io |-> <<"read", "write">>]
             ELSE [status |-> S_Success, saved_as |-> out,
                   disk |-> (Resolve(out) :> written(file, df_deidentified)) @@ disk,
                   io |-> <<"read", "write">>]

----------------------------------------------------------------------------
(* Direct calls of process_file on bounded inputs *)

C_PatientName == <<"P", "a", "t", "i", "e", "n", "t", "N", "a", "m", "e">>
C_DOB == <<"D", "O", "B">>
C_Notes == <<"N", "o", "t", "e", "s">>

X_bob == <<"B", "o", "b">>
X_d1 == <<"1", "9", "9", "0", "-", "0", "1", "-", "0", "1">>
X_d2 == <<"1", "9", "9", "1", "-", "0", "2", "-", "0", "2">>
X_seen == <<"s", "e", "e", "n", " ", "A", "l", "i", "c", "e">>
X_ok == <<"o", "k">>

\* the table of the scenario: [PatientName, DOB, Notes], two rows
ScenarioTable ==
    [columns |-> <<C_PatientName, C_DOB, C_Notes>>,
     rows |-> << <<Text(X_alice), Text(X_d1), Text(X_seen)>>,
                 <<Text(X_bob), Text(X_d2), Text(X_ok)>> >>]

\* a spreadsheet with a missing date and a text "NaT"
SheetTable ==
    [columns |-> <<C_Notes, C_DOB, N_Zip>>,
     rows |-> << <<Text(X_NaT), NaT, NaN>>,
                 <<Text(X_ok), Text(X_d1), Text(X_ok)>> >>]

F_csv == <<"/", "u", "/", "d", ".", "c", "s", "v">>
F_xlsx == <<"/", "u", "/", "d", ".", "x", "l", "s", "x">>
F_bad == <<"/", "u", "/", "g", ".", "c", "s", "v">>
F_gone == <<"/", "u", "/", "x", ".", "c", "s", "v">>
F_cwd == <<"/", "w", "/", "d", ".", "c", "s", "v">>

Disk0 ==
    (F_csv :> [kind |-> "csv", table |-> ScenarioTable]) @@
    (F_cwd :> [kind |-> "csv", table |-> ScenarioTable]) @@
    (F_xlsx :> [kind |-> "xlsx", table |-> SheetTable]) @@
    (F_bad :> [kind |-> "garbage", table |-> None])

\* output names: none, the input's base name, another name, the input's
\* full path, a name in a directory that does not exist, spreadsheet names
OutNames ==
    { <<>>, <<"d", ".", "c", "s", "v">>, <<"o", ".", "c", "s", "v">>, F_csv, <<"/", "r", "o", "/", "o", ".", "c", "s", "v">>, <<"d", ".", "x", "l", "s", "x">>, <<"o", ".", "x", "l", "s", "x">> }

ColumnNames == {C_PatientName, C_DOB, C_Notes, N_Zip}

InitExport ==
    /\ \E f \in {NoFile, F_csv, F_xlsx, F_bad, F_gone, F_cwd}, o \in OutNames :
         \E a \in SUBSET ColumnNames, b \in SUBSET ColumnNames :
            call = [fn |-> "process_file", file |-> f, output_file_name |-> o,
                    first |-> a, second |-> b]
    /\ identifying_strings \in {InitialStrings, ResetStrings}
    /\ fs = Disk0
    /\ ret = NoRet
    /\ file_input = NoFile /\ result = <<>>
    /\ identified_columns = Idle /\ additional_columns = Idle
    /\ pending = {} /\ last = NoCall

CallProcessFile ==
    /\ call.fn = "process_file" /\ ~ret.done
    /\ LET r == process_file(fs, call.file, call.output_file_name, call.first, call.second)
       IN  /\ ret' = Returned([x \in DOMAIN r \ {"disk"} |-> r[x]])
           /\ fs' = r.disk
    /\ UNCHANGED <<identifying_strings, file_input, identified_columns,
                   additional_columns, result, pending, last, call>>

SpecExport == InitExport /\ [][CallProcessFile]_vars

ProcessStep == call.fn = "process_file" /\ ~ret.done /\ ret'.done

Count(seq, x) == Cardinality({i \in 1..Len(seq) : seq[i] = x})

\* C6: a successful export writes the table of D's columns outside F \cup S,
\* in D's order, with D's rows and cells; names of F \cup S that are no
\* column of D change neither the status nor what is written.
C6_ExportExact ==
    [][ProcessStep =>
        LET sel == call.first \cup call.second IN
        /\ ret'.value.status = S_Success =>
             LET D == fs[call.file].table
                 W == fs'[Resolve(ret'.value.saved_as)].table
             IN  /\ Range(W.columns) = Range(D.columns) \ sel
                 /\ NoDup(W.columns)
                 /\ Len(W.rows) = Len(D.rows)
                 /\ \A c \in Range(W.columns) : Column(W, c) = Column(D, c)
                 /\ \A i, j \in 1..Len(W.columns) :
                        i < j => ColIndex(D, W.columns[i]) < ColIndex(D, W.columns[j])
        /\ (call.file # NoFile /\ call.output_file_name # <<>> /\ ~read_raises(fs, call.file)) =>
             LET known == Range(fs[call.file].table.columns)
                 r == process_file(fs, call.file, call.output_file_name,
                                   call.first \cap known, call.second \cap known)
             IN  ret'.value.status = r.status /\ fs' = r.disk
       ]_vars

\* C6 witness: a successful export that dropped a first-pass and a
\* second-pass column, kept one, and was also given a name that is no column
C6_Witness ==
    /\ call.fn = "process_file" /\ ret.done /\ ret.value.status = S_Success
    /\ call.file = F_csv
    /\ call.first = {C_PatientName, N_Zip} /\ call.second = {C_DOB}
    /\ fs[Resolve(ret.value.saved_as)].table.columns = <<C_Notes>>

\* C7: an output name that designates the input file is never the file
\* written, and the input file is as it was after the call.
C7_OverwriteGuardClaim ==
    [][(/\ ProcessStep
        /\ call.file # NoFile /\ call.file \in DOMAIN fs
        /\ call.output_file_name # <<>>
        /\ Resolve(call.output_file_name) = call.file)
       => /\ fs'[call.file] = fs[call.file]
          /\ ret'.value.status = S_Success => Resolve(ret'.value.saved_as) # call.file
      ]_vars

\* C8: one terminal status per call, decided in the order no file, no output
\* name, read error, write error, success; one read and one write at most;
\* nothing written in the first three outcomes; the registry untouched.
C8_TerminalStatus ==
    [][ProcessStep =>
        /\ ret'.value.status =
             (IF call.file = NoFile THEN S_NoFile
              ELSE IF call.output_file_name = <<>> THEN S_NoName
              ELSE IF read_raises(fs, call.file) THEN S_ReadError
              ELSE IF write_raises(call.file, guarded_name(call.file, call.output_file_name))
                   THEN S_WriteError
              ELSE S_Success)
        /\ Count(ret'.value.io, "read") <= 1 /\ Count(ret'.value.io, "write") <= 1
        /\ ret'.value.status \in {S_NoFile, S_NoName, S_ReadError} =>
               fs' = fs /\ Count(ret'.value.io, "write") = 0
        /\ identifying_strings' = identifying_strings
       ]_vars

\* C8 witnesses: each of the five outcomes has been returned; the one named
\* here is the call with neither a file nor an output name
C8_Witness ==
    /\ call.fn = "process_file" /\ ret.done
    /\ call.file = NoFile /\ call.output_file_name = <<>>
    /\ ret.value.status = S_NoFile

----------------------------------------------------------------------------
(* The UI handlers.  A handler's return for a CheckboxGroup is             *)
(* [update |-> TRUE, choices |-> c] for gr.update(choices=c) and           *)
(* [update |-> FALSE] for gr.update(): the component keeps its choices.    *)
(* The preview DataFrames are display only and are left out.               *)

Choices(c) == [update |-> TRUE, choices |-> c]
NoUpdate == [update |-> FALSE, choices |-> <<>>]

\* lines 289-300
update_identified_columns(disk, file, strings) ==
    IF file # NoFile
    THEN IF read_raises(disk, file)
         THEN Choices(<<>>)
         ELSE Choices(identify_columns(read_table(disk, file), strings))
    ELSE Choices(<<>>)

\* lines 128-143; the filter of line 136 removes nothing, line 88 already
\* skips the selected columns
update_additional_columns(disk, file, selected) ==
    IF file # NoFile /\ selected # {}
    THEN IF read_raises(disk, file) \/ second_pass_raises(read_table(disk, file), selected)
         THEN Choices(<<>>)
         ELSE Choices(SelectSeq(second_pass_identification(read_table(disk, file), selected),
                                LAMBDA col : col \notin selected))
    ELSE Choices(<<>>)

\* lines 217-255: the status and the update of identified_columns
main_unguarded(disk, file, strings) ==
    IF read_raises(disk, file)
    THEN [status |-> S_ReadError, out |-> NoUpdate]
    ELSE [status |-> "", out |-> Choices(identify_columns(read_table(disk, file), strings))]
main(disk, file, strings) ==
    IF file # NoFile
    THEN IF read_raises(disk, file)
         THEN [status |-> S_ReadError, out |-> NoUpdate]
         ELSE [status |-> "",
               out |-> Choices(identify_columns(read_table(disk, file), strings))]
    ELSE [status |-> "", out |-> Choices(<<>>)]

\* what a handler's return does to a CheckboxGroup: choices replaced, value kept
Apply(component, out) ==
    IF out.update THEN [component EXCEPT !.choices = out.choices] ELSE component

----------------------------------------------------------------------------
(* The session: events and the handlers registered on them (lines 360-463). *)
(* An event hands every handler registered on it the values its input       *)
(* components hold at that moment; the handlers of one event are            *)
(* independent requests and run in any order.  One user: the next event     *)
(* comes when the handlers of the previous one have returned.               *)

Handler(fn, arg) ==
    [fn |-> fn, file |-> file_input, sel |-> identified_columns.value, arg |-> arg]

\* what the user can type into new_string
TermInputs == {<<>>, T_name, N_Name, C_Notes}

\* the files the user can upload
Uploads == {F_csv, F_xlsx, F_bad}

Quiet == pending.handlers = {}

Init ==
    /\ identifying_strings = InitialStrings
    /\ fs = Disk0
    /\ file_input = NoFile
    /\ identified_columns = Idle
    /\ additional_columns = Idle
    /\ result = ""
    /\ pending = [event |-> None, handlers |-> {}]
    /\ last = [fn |-> None, file |-> NoFile, sel |-> {}, arg |-> <<>>, out |-> NoUpdate]
    /\ call = NoCall
    /\ ret = NoRet

\* the user uploads a file or clears the upload: file_input.change (360-370)
ChangeFile ==
    /\ Quiet
    /\ \E f \in Uploads \cup {NoFile} :
          /\ f # file_input
          /\ file_input' = f
          /\ pending' = [event |-> "file_input.change",
                         handlers |-> {[Handler("main", <<>>) EXCEPT !.file = f]}]
    /\ UNCHANGED <<identifying_strings, fs, identified_columns, additional_columns,
                   result, last, call, ret>>

\* the user ticks or unticks a first-pass choice: identified_columns.change (373-384)
ToggleColumn ==
    /\ Quiet
    /\ \E c \in Range(identified_columns.choices) :
          LET v == IF c \in identified_columns.value
                   THEN identified_columns.value \ {c}
                   ELSE identified_columns.value \cup {c}
          IN  /\ identified_columns' = [identified_columns EXCEPT !.value = v]
              /\ pending' = [event |-> "identified_columns.change",
                             handlers |-> {[Handler("update_additional_columns", <<>>)
                                               EXCEPT !.sel = v]}]
    /\ UNCHANGED <<identifying_strings, fs, file_input, additional_columns,
                   result, last, call, ret>>

\* add_button.click: the handlers of lines 387-391 and 400-416 (the preview
\* handler of 406-410 changes no state modelled here)
ClickAdd ==
    /\ Quiet
    /\ \E t \in TermInputs :
          pending' = [event |-> "add_button.click",
                      handlers |-> {Handler("update_identifying_list_add", t),
                                    Handler("update_identified_columns", <<>>),
                                    Handler("update_additional_columns", <<>>)}]
    /\ UNCHANGED <<identifying_strings, fs, file_input, identified_columns,
                   additional_columns, result, last, call, ret>>

\* remove_button.click: the handlers of lines 393-397 and 418-434
ClickRemove ==
    /\ Quiet
    /\ \E t \in TermInputs :
          pending' = [event |-> "remove_button.click",
                      handlers |-> {Handler("update_identifying_list_remove", t),
                                    Handler("update_identified_columns", <<>>),
                                    Handler("update_additional_columns", <<>>)}]
    /\ UNCHANGED <<identifying_strings, fs, file_input, identified_columns,
                   additional_columns, result, last, call, ret>>

\* reset_button.click (449-463)
ClickReset ==
    /\ Quiet
    /\ pending' = [event |-> "reset_button.click", handlers |-> {Handler("reset", <<>>)}]
    /\ UNCHANGED <<identifying_strings, fs, file_input, identified_columns,
                   additional_columns, result, last, call, ret>>

Done(h) == pending' = [pending EXCEPT !.handlers = pending.handlers \ {h}]
Record(h, out) == last' = [fn |-> h.fn, file |-> h.file, sel |-> h.sel, arg |-> h.arg, out |-> out]

RunAdd ==
    \E h \in pending.handlers :
        /\ h.fn = "update_identifying_list_add"
        /\ identifying_strings' = list_add(identifying_strings, h.arg)
        /\ Done(h) /\ Record(h, NoUpdate)
        /\ UNCHANGED <<fs, file_input, identified_columns, additional_columns,
                       result, call, ret>>

RunRemove ==
    \E h \in pending.handlers :
        /\ h.fn = "update_identifying_list_remove"
        /\ identifying_strings' = list_remove(identifying_strings, h.arg)
        /\ Done(h) /\ Record(h, NoUpdate)
        /\ UNCHANGED <<fs, file_input, identified_columns, additional_columns,
                       result, call, ret>>

RunUpdateIdentified ==
    \E h \in pending.handlers :
        /\ h.fn = "update_identified_columns"
        /\ LET out == update_identified_columns(fs, h.file, identifying_strings)
           IN  /\ identified_columns' = Apply(identified_columns, out)
               /\ Record(h, out)
        /\ Done(h)
        /\ UNCHANGED <<identifying_strings, fs, file_input, additional_columns,
                       result, call, ret>>

RunUpdateAdditional ==
    \E h \in pending.handlers :
        /\ h.fn = "update_additional_columns"
        /\ LET out == update_additional_columns(fs, h.file, h.sel)
           IN  /\ additional_columns' = Apply(additional_columns, out)
               /\ Record(h, out)
        /\ Done(h)
        /\ UNCHANGED <<identifying_strings, fs, file_input, identified_columns,
                       result, call, ret>>

RunMain ==
    \E h \in pending.handlers :
        /\ h.fn = "main"
        /\ LET r == main(fs, h.file, identifying_strings)
           IN  /\ result' = r.status
               /\ identified_columns' = Apply(identified_columns, r.out)
               /\ Record(h, r.out)
        /\ Done(h)
        /\ UNCHANGED <<identifying_strings, fs, file_input, additional_columns, call, ret>>

\* reset (264-277); clearing file_input is a change of it, which runs main
RunReset ==
    \E h \in pending.handlers :
        /\ h.fn = "reset"
        /\ identifying_strings' = ResetStrings
        /\ file_input' = NoFile
        /\ result' = ""
        /\ identified_columns' = Apply(identified_columns, Choices(<<>>))
        /\ additional_columns' = Apply(additional_columns, Choices(<<>>))
        /\ pending' = [pending EXCEPT !.handlers =
                          IF file_input # NoFile
                          THEN {[fn |-> "main", file |-> NoFile,
                                 sel |-> identified_columns.value, arg |-> <<>>]}
                          ELSE {}]
        /\ Record(h, Choices(<<>>))
        /\ UNCHANGED <<fs, call, ret>>

Next ==
    \/ ChangeFile \/ ToggleColumn \/ ClickAdd \/ ClickRemove \/ ClickReset
    \/ RunAdd \/ RunRemove \/ RunUpdateIdentified \/ RunUpdateAdditional
    \/ RunMain \/ RunReset

Spec == Init /\ [][Next]_vars

----------------------------------------------------------------------------
(* Properties of the session *)

\* handler fn of the current event has just returned
Ran(fn) ==
    /\ pending'.event = pending.event
    /\ \E h \in pending.handlers :
          h.fn = fn /\ pending'.handlers = pending.handlers \ {h} /\ last'.arg = h.arg
    /\ last'.fn = fn

\* C3 (as claimed): on the scenario table, with "name" and "dob" registered
\* and no term matching "Notes", the first pass is [PatientName, DOB] and the
\* second pass on {PatientName, DOB} is [Notes].
ScenarioTerms ==
    /\ InList(T_name, identifying_strings) /\ InList(T_dob, identifying_strings)
    /\ ~HasTerm(C_Notes, Range(identifying_strings))
ScenarioFirstPass ==
    (last.fn \in {"main", "update_identified_columns"} /\ last.file = F_csv /\ ScenarioTerms)
        => last.out = Choices(<<C_PatientName, C_DOB>>)
C3_ScenarioClaim ==
    /\ ScenarioFirstPass
    /\ (last.fn = "update_additional_columns" /\ last.file = F_csv
            /\ last.sel = {C_PatientName, C_DOB})
        => last.out = Choices(<<C_Notes>>)

\* C3 (amended): the first pass is [PatientName, DOB]; the second pass on
\* {PatientName, DOB} is empty: no cell of Notes equals a selected value,
\* "seen Alice" only contains one.
C3_ScenarioAmended ==
    /\ ScenarioFirstPass
    /\ (last.fn = "update_additional_columns" /\ last.file = F_csv
            /\ last.sel = {C_PatientName, C_DOB})
        => last.out = Choices(<<>>)

\* C3 witness: the second pass has run on the scenario's selection, the first
\* pass's choices still shown
C3_Witness ==
    /\ last.fn = "update_additional_columns" /\ last.file = F_csv
    /\ last.sel = {C_PatientName, C_DOB}
    /\ identified_columns.choices = <<C_PatientName, C_DOB>>
    /\ Contains(X_seen, X_alice)

\* C4: after reset() the registry is the list the process started with.
C4_ResetRestoresDefault ==
    last.fn = "reset" => identifying_strings = InitialStrings

\* C5: add lowercases its term and appends it only if it is non-empty and not
\* yet present, so adding it again in any letter case changes nothing; remove
\* lowercases its term and changes nothing if it is empty or absent; neither
\* touches another term; the registry never holds a duplicate or an empty term.
C5_RegistryAddRemove ==
    /\ [](NoDup(identifying_strings) /\ ~InList(<<>>, identifying_strings))
    /\ [][LET b == identifying_strings
              a == identifying_strings'
              t == last'.arg
          IN  /\ Ran("update_identifying_list_add") =>
                    /\ a = IF t # <<>> /\ ~InList(Lower(t), b) THEN Append(b, Lower(t)) ELSE b
                    /\ \A t2 \in TermInputs : Lower(t2) = Lower(t) => list_add(a, t2) = a
              /\ Ran("update_identifying_list_remove") =>
                    /\ (t = <<>> \/ ~InList(Lower(t), b)) => a = b
                    /\ Range(a) = Range(b) \ (IF t = <<>> THEN {} ELSE {Lower(t)})
                    /\ a = SelectSeq(b, LAMBDA x : t = <<>> \/ x # Lower(t))
                    /\ list_remove(a, t) = a
         ]_vars

\* C5 witness: "Name" was added after "name" had been removed: the registry
\* ends with the lowercased term
C5_Witness ==
    /\ last.fn = "update_identifying_list_add" /\ last.arg = N_Name
    /\ identifying_strings[Len(identifying_strings)] = T_name

\* C9: with no file loaded, main, update_identified_columns and
\* update_additional_columns return an empty list of choices, whatever the
\* registry and the selection handed in.
C9_IdleMatchersEmpty ==
    /\ (last.fn \in {"main", "update_identified_columns", "update_additional_columns"}
            /\ last.file = NoFile)
        => last.out = Choices(<<>>)
    /\ file_input = NoFile =>
          /\ main(fs, file_input, identifying_strings).out = Choices(<<>>)
          /\ update_identified_columns(fs, file_input, identifying_strings) = Choices(<<>>)
          /\ update_additional_columns(fs, file_input, identified_columns.value) = Choices(<<>>)

\* C9 witness: after a reset, with a changed registry and a selection left
\* over from the table loaded before, the second-pass handler ran with no file
C9_Witness ==
    /\ last.fn = "update_additional_columns" /\ last.file = NoFile
    /\ last.sel # {}
    /\ identifying_strings # ResetStrings /\ identifying_strings # InitialStrings

\* C10: once an Add or Remove click is fully handled on a loaded table, the
\* first-pass choices are identify_columns of the table under the registry as
\* that click left it.
C10_RematchSeesMutation ==
    (/\ pending.event \in {"add_button.click", "remove_button.click"}
     /\ Quiet
     /\ file_input # NoFile /\ ~read_raises(fs, file_input))
    => identified_columns.choices =
           identify_columns(read_table(fs, file_input), identifying_strings)

====
